---- MODULE Spec2Model ----
(***************************************************************************)
(* Authentication subsystem of vscode-pomodoro-spotify:                    *)
(*   SpotifyService.authenticate / handleAuthCallback / timeout callback   *)
(*   and AuthCallbackServer.startServer / stopServer.                      *)
(*                                                                         *)
(* Every authenticate() call is an "attempt", numbered in call order.      *)
(* The promise of attempt a and its resolve/reject functions are named by  *)
(* the number a; 0 stands for undefined / null / the empty string.         *)
(* The random state token and code verifier generated by attempt a are     *)
(* named a as well (crypto.randomBytes never repeats a value).             *)
(***************************************************************************)
EXTENDS Integers, Sequences, FiniteSets, TLC

\* ---- bounds ----
MaxAttempts == 2
MaxCallbacks == 2
MaxTime == 2
MaxChecks == 2
MaxTokenChecks == 1
MaxRequests == 2
MaxErrLen == 2
MaxOrphans == 1
MaxDelayed == 1
MaxPrompts == 1
MaxCompleted == 2
MaxOverrun == 1
MaxElapsed == 2

\* ---- values ----
Attempts == 1..MaxAttempts
Undefined == 0
NoParam == -1
Forged == -2
StateParams == {NoParam, Forged} \cup (0..MaxAttempts)
CodeParams == {NoParam, 1}
ErrorParams == {NoParam, 1}

\* Token endpoint answers to a code exchange: 200 with a JSON body, a non-200
\* status, 200 with a body JSON.parse rejects, or no answer (request error).
Responses == {"ok200", "status400", "garbage200", "requestError"}
\* expires_in of a token response, in clock units
TTLs == {2}
\* Date.now() counts units of the 300000 ms buffer, from 0 to MaxTime
Buffer == 1
\* The token pair of exchange request i is named i; a record kept from an
\* earlier run of the extension carries the token named PriorToken.
Exchanges == 1..MaxCallbacks
PriorToken == 50
ExchangeToken(i) == i

\* isAuthenticated() calls, numbered in call order; the token pair of the
\* refresh issued by call k is named RefreshTokenOf(k).
Checks == 1..MaxChecks
\* the calls TokenSpec follows
TokenChecks == 1..MaxTokenChecks
RefreshTokenOf(k) == MaxCallbacks + k
\* Token endpoint answers to a refresh: 200 with or without a refresh_token
\* in the body, a non-200 status, an unparsable body, a request error.
RefreshResponses == {"ok200rt", "ok200", "status400", "garbage200", "requestError"}

\* HTTP requests to the callback listener. query.code is undefined (NoParam),
\* '' (0) or a value; query.state is undefined or a value; query.error is a string over
\* Chars, the empty string standing for both '' and undefined (both falsy).
Paths == {"/callback", "/other"}
HttpCodes == {NoParam, 0, 1}
HttpStates == {NoParam, 1}
Chars == {"a", "<", "&"}
RECURSIVE StringsUpTo(_)
StringsUpTo(n) ==
    IF n = 0 THEN {<<>>}
    ELSE LET shorter == StringsUpTo(n - 1) IN
         shorter \cup {Append(w, c) : w \in shorter, c \in Chars}
HttpErrors == StringsUpTo(MaxErrLen)
\* no request served yet
NoResponse == [status |-> 0, type |-> "none", body |-> <<>>]
\* PomodoroTimer. Durations are in seconds (configured minutes * 60), scaled
\* down; TimerStates are the values of the enum TimerState.
TimerStates == {"stopped", "work", "shortBreak", "longBreak"}
Breaks == {"shortBreak", "longBreak"}
WorkSeconds == 2
ShortBreakSeconds == 1
LongBreakSeconds == 3
LongBreakAfter == 2
\* the durations entered in startCustom(), the literal 25 * 60 of restart()
\* and the fallback (customBreakDuration || 5) * 60
CustomWorkChoices == {1}
CustomBreakChoices == {2}
RestartCustomWorkSeconds == 3
CustomBreakFallback == 1
\* an unset customBreakDuration
NoDuration == 0
\* workspaceState.get('pomodoroState') before the first saveState
\* (intervalSeconds is not in the entry: it records for which interval the
\* entry was written)
NoSavedState == [state |-> "none", remainingTime |-> 0,
                 completedIntervals |-> 0, intervalSeconds |-> 0]
\* whole seconds between a saveState and the loadState of the next start
Elapsed == 0..MaxElapsed
\* the callbacks given to setTimeout(..., 1000)
Transitions == {"startBreakInterval", "startWorkInterval", "startCustomBreakInterval"}
Selections == {"Continue", "Stop Timer", "dismissed"}

\* results of vscode.env.openExternal(authUrl): true, false, rejected
OpenResults == {"opened", "refused", "error"}
OpenedMsg == "Spotify Authorization: After clicking Agree ..."
OpenRefusedMsg == "Failed to open browser for Spotify authorization"
OpenErrorMsg == "Failed to open authorization page: <error>"

SecurityErrorMsg == "Authentication failed: Security error"
ExchangeErrorMsg == "Authentication failed: <authError>"
ProviderErrorMsg == "Spotify authentication failed: <error>"
ConnectedMsg == "Spotify Connected!"

VARIABLES
    pendingAuthResolve,
    pendingAuthReject,
    authState,
    codeVerifier,
    server,
    srv,
    extPort,
    pc,
    timer,
    promise,
    invoked,
    requests,
    inflight,
    cbCount,
    lastMessage,
    accessToken,
    refreshToken,
    tokenExpiry,
    now,
    xphase,
    xresp,
    xrecv,
    xttl,
    cpc,
    cAccess,
    cResult,
    refreshSent,
    cresp,
    crecv,
    cttl,
    openOutcome,
    lastResponse,
    handoff,
    opened,
    timerState,
    ticker,
    orphanTickers,
    remainingTime,
    completedIntervals,
    isCustomSession,
    customBreakDuration,
    delayed,
    prompts,
    customPc,
    stopRequested,
    transitionMode,
    showNotifications,
    savedState,
    intervalSeconds

\* the stored token record (secrets + globalState)
tokenVars == <<accessToken, refreshToken, tokenExpiry>>
\* the response handlers of the exchange requests
xVars == <<xphase, xresp, xrecv, xttl>>
\* the isAuthenticated() calls and the refreshes they issue
checkVars == <<cpc, cAccess, cResult, refreshSent, cresp, crecv, cttl>>

\* the callback listener's last response, the hand-off timers it set and the
\* URIs given to vscode.env.openExternal by them
httpVars == <<lastResponse, handoff, opened>>
\* state of the components the authentication coordinator never touches
\* PomodoroTimer: its fields (ticker: the field `timer` holds an interval;
\* orphanTickers: intervals still running that the field no longer names),
\* the pending setTimeout(..., 1000) callbacks, the open completion
\* notifications, the position of a startCustom() call, the two settings read
\* on every transition, whether stop() was the last start/stop request, the
\* workspaceState entry 'pomodoroState', and the duration with which the
\* current interval was started
pomodoroVars == <<timerState, ticker, orphanTickers, remainingTime,
                  completedIntervals, isCustomSession, customBreakDuration,
                  delayed, prompts, customPc, stopRequested,
                  transitionMode, showNotifications, savedState,
                  intervalSeconds>>
sideVars == <<httpVars, pomodoroVars>>

vars == <<pendingAuthResolve, pendingAuthReject, authState, codeVerifier,
          server, srv, extPort, pc, timer, promise, invoked, requests,
          inflight, cbCount, lastMessage, tokenVars, now, xVars, checkVars,
          openOutcome, sideVars>>

\* ---- helpers ----

\* query.get(...) yields null for an absent parameter; '' and null are falsy.
Truthy(v) == v # NoParam /\ v # 0

\* The port is exclusive: held by one of our own listening servers or by
\* another process.
OwnListeners == {a \in Attempts : srv[a] = "listening"}
PortHeld == extPort \/ OwnListeners # {}

\* The tick/microtask chain of an authenticate() call (listen -> 'listening'
\* or 'error' -> await continuation) runs before any other event is taken.
Busy == \E a \in Attempts : pc[a] = "startServer"

\* Calling a promise's resolve/reject function: only the first call settles.
Settle(p, a, outcome) == IF p[a] = "pending" THEN [p EXCEPT ![a] = outcome] ELSE p

GenericBindError(code) == "BindError"
ListenErrorReason(code) == IF code = "EADDRINUSE" THEN "PortInUse" ELSE "BindError"

AlwaysMatches(received, expected) == TRUE
verifyState(received, expected) == received = expected

\* AuthCallbackServer.stopServer as a function of the field this.server and
\* of the servers' states: if (this.server) { close(); this.server = null }.
\* close() on a server that is not listening changes nothing.
stopServerUnguarded(field, listeners) ==
    [server |-> 0,
     srv |-> IF field # 0 /\ listeners[field] = "listening"
             THEN [listeners EXCEPT ![field] = "closed"]
             ELSE listeners,
     threw |-> field = 0]
stopServer(field, listeners) ==
    [server |-> 0,
     srv |-> IF field # 0 /\ listeners[field] = "listening"
             THEN [listeners EXCEPT ![field] = "closed"]
             ELSE listeners,
     threw |-> FALSE]

\* AuthCallbackServer.stopServer applied to the current state
stopServerSrv == stopServer(server, srv).srv
stopServerField == stopServer(server, srv).server

\* PomodoroTimer after construction with no saved state, default settings
FreshTimer ==
    /\ timerState = "stopped"
    /\ ticker = FALSE
    /\ orphanTickers = 0
    /\ remainingTime = 0
    /\ completedIntervals = 0
    /\ isCustomSession = FALSE
    /\ customBreakDuration = NoDuration
    /\ delayed = <<>>
    /\ prompts = <<>>
    /\ customPc = "idle"
    /\ stopRequested = FALSE
    /\ savedState = NoSavedState
    /\ intervalSeconds = 0

\* the defaults of pomodoro.transitionMode and pomodoro.showNotifications
DefaultSettings ==
    /\ transitionMode = "manual"
    /\ showNotifications = TRUE

\* SpotifyService and AuthCallbackServer after construction
ServiceInit ==
    /\ pendingAuthResolve = Undefined
    /\ pendingAuthReject = Undefined
    /\ authState = 0
    /\ codeVerifier = 0
    /\ server = 0
    /\ srv = [a \in Attempts |-> "none"]
    /\ extPort \in BOOLEAN
    /\ pc = [a \in Attempts |-> "init"]
    /\ timer = [a \in Attempts |-> "unset"]
    /\ promise = [a \in Attempts |-> "pending"]
    /\ invoked = [a \in Attempts |-> 0]
    /\ requests = <<>>
    /\ inflight = {}
    /\ cbCount = 0
    /\ lastMessage = "none"
    \* nothing stored yet, or a record kept from an earlier run (stored at
    \* time 0 with one of the lifetimes); the refresh token lives in the
    \* secret storage and may be missing from it
    /\ \/ accessToken = 0 /\ refreshToken = 0 /\ tokenExpiry = 0
       \/ /\ accessToken = PriorToken
          /\ refreshToken \in {0, PriorToken}
          /\ tokenExpiry \in TTLs
    /\ now = 0
    /\ xphase = [i \in Exchanges |-> "none"]
    /\ xresp = [i \in Exchanges |-> "none"]
    /\ xrecv = [i \in Exchanges |-> 0]
    /\ xttl = [i \in Exchanges |-> 0]
    /\ cpc = [k \in Checks |-> "init"]
    /\ cAccess = [k \in Checks |-> 0]
    /\ cResult = [k \in Checks |-> "none"]
    /\ refreshSent = [k \in Checks |-> 0]
    /\ cresp = [k \in Checks |-> "none"]
    /\ crecv = [k \in Checks |-> 0]
    /\ cttl = [k \in Checks |-> 0]
    /\ openOutcome = [a \in Attempts |-> "none"]
    /\ lastResponse = NoResponse
    /\ handoff = <<>>
    /\ opened = <<>>

Init ==
    /\ ServiceInit
    /\ FreshTimer
    /\ DefaultSettings

\* ---- authenticate(), synchronous part up to `await startServer()` ----
Authenticate(a) ==
    /\ ~Busy
    /\ pc[a] = "init"
    /\ \A b \in Attempts : b < a => pc[b] # "init"
    /\ pendingAuthResolve' = a
    /\ pendingAuthReject' = a
    /\ server' = a
    /\ srv' = [srv EXCEPT ![a] = "binding"]
    /\ pc' = [pc EXCEPT ![a] = "startServer"]
    /\ UNCHANGED <<authState, codeVerifier, extPort, timer, promise, invoked,
                   requests, inflight, cbCount, lastMessage,
                   tokenVars, now, xVars, checkVars>>
    /\ UNCHANGED <<openOutcome, sideVars>>

\* ---- 'listening': startServer resolves, openAuthUrl, timeout armed ----
ListenOk(a) ==
    /\ pc[a] = "startServer"
    /\ ~PortHeld
    /\ srv' = [srv EXCEPT ![a] = "listening"]
    /\ codeVerifier' = a
    /\ authState' = a
    /\ timer' = [timer EXCEPT ![a] = "armed"]
    /\ pc' = [pc EXCEPT ![a] = "done"]
    /\ UNCHANGED <<pendingAuthResolve, pendingAuthReject, server, extPort,
                   promise, invoked, requests, inflight, cbCount, lastMessage,
                   tokenVars, now, xVars, checkVars>>
    \* openAuthUrl: vscode.env.openExternal(authUrl) is called, its promise
    \* is not awaited
    /\ openOutcome' = [openOutcome EXCEPT ![a] = "pending"]
    /\ UNCHANGED sideVars

\* ---- 'error': startServer rejects, catch branch rejects the promise ----
ListenErrorOpensUrl(a) ==
    /\ pc[a] = "startServer"
    /\ \E code \in (IF PortHeld THEN {"EADDRINUSE"} ELSE {"EACCES"}) :
          promise' = Settle(promise, a, ListenErrorReason(code))
    /\ invoked' = [invoked EXCEPT ![a] = @ + 1]
    /\ srv' = [srv EXCEPT ![a] = "failed"]
    /\ pc' = [pc EXCEPT ![a] = "catch"]
    /\ codeVerifier' = a
    /\ authState' = a
    /\ openOutcome' = [openOutcome EXCEPT ![a] = "pending"]
    /\ UNCHANGED <<pendingAuthResolve, pendingAuthReject, server, extPort,
                   timer, requests, inflight, cbCount, lastMessage,
                   tokenVars, now, xVars, checkVars, sideVars>>
ListenError(a) ==
    /\ pc[a] = "startServer"
    /\ \E code \in (IF PortHeld THEN {"EADDRINUSE"} ELSE {"EACCES"}) :
          promise' = Settle(promise, a, ListenErrorReason(code))
    /\ invoked' = [invoked EXCEPT ![a] = @ + 1]
    /\ srv' = [srv EXCEPT ![a] = "failed"]
    /\ pc' = [pc EXCEPT ![a] = "catch"]
    /\ UNCHANGED <<pendingAuthResolve, pendingAuthReject, authState,
                   codeVerifier, server, extPort, timer, requests, inflight,
                   cbCount, lastMessage,
                   tokenVars, now, xVars, checkVars>>
    /\ UNCHANGED <<openOutcome, sideVars>>

\* ---- the setTimeout callback of attempt a (300000 ms) ----
Timeout(a) ==
    /\ ~Busy
    /\ timer[a] = "armed"
    /\ \A b \in Attempts : b < a => timer[b] # "armed"
    /\ timer' = [timer EXCEPT ![a] = "fired"]
    /\ IF pendingAuthReject # Undefined
       THEN /\ promise' = Settle(promise, pendingAuthReject, "Timeout")
            /\ invoked' = [invoked EXCEPT ![pendingAuthReject] = @ + 1]
            /\ pendingAuthReject' = Undefined
            /\ pendingAuthResolve' = Undefined
            /\ srv' = stopServerSrv
            /\ server' = stopServerField
       ELSE UNCHANGED <<promise, invoked, pendingAuthReject,
                        pendingAuthResolve, srv, server>>
    /\ UNCHANGED <<authState, codeVerifier, extPort, pc, requests, inflight,
                   cbCount, lastMessage,
                   tokenVars, now, xVars, checkVars>>
    /\ UNCHANGED <<openOutcome, sideVars>>

\* ---- handleAuthCallback(uri), up to its return or its await ----
HandleAuthCallback(state, code, error) ==
    /\ ~Busy
    /\ cbCount < MaxCallbacks
    /\ cbCount' = cbCount + 1
    /\ IF ~verifyState(state, authState)
       THEN /\ IF pendingAuthReject # Undefined
               THEN /\ promise' = Settle(promise, pendingAuthReject, "CsrfMismatch")
                    /\ invoked' = [invoked EXCEPT ![pendingAuthReject] = @ + 1]
               ELSE UNCHANGED <<promise, invoked>>
            /\ lastMessage' = SecurityErrorMsg
            /\ srv' = stopServerSrv
            /\ server' = stopServerField
            /\ UNCHANGED <<pendingAuthResolve, pendingAuthReject, requests,
                           inflight, xphase>>
       ELSE IF Truthy(code) /\ pendingAuthResolve # Undefined
       THEN \* the POST body, and (session, pending) whose continuation the
            \* handler found stored when it sent the request and whether
            \* that promise was still unsettled
            /\ requests' = Append(requests,
                  [code |-> code,
                   code_verifier |-> codeVerifier,
                   session |-> pendingAuthResolve,
                   pending |-> promise[pendingAuthResolve] = "pending"])
            /\ inflight' = inflight \cup {Len(requests) + 1}
            /\ xphase' = [xphase EXCEPT ![Len(requests) + 1] = "wait"]
            /\ UNCHANGED <<promise, invoked, lastMessage, srv, server,
                           pendingAuthResolve, pendingAuthReject>>
       ELSE /\ IF Truthy(error) /\ pendingAuthReject # Undefined
               THEN /\ promise' = Settle(promise, pendingAuthReject, "ProviderDenied")
                    /\ invoked' = [invoked EXCEPT ![pendingAuthReject] = @ + 1]
                    /\ lastMessage' = ProviderErrorMsg
               ELSE UNCHANGED <<promise, invoked, lastMessage>>
            /\ pendingAuthResolve' = Undefined
            /\ pendingAuthReject' = Undefined
            /\ srv' = stopServerSrv
            /\ server' = stopServerField
            /\ UNCHANGED <<requests, inflight, xphase>>
    /\ UNCHANGED <<authState, codeVerifier, extPort, pc, timer, tokenVars, now,
                   xresp, xrecv, xttl, checkVars>>
    /\ UNCHANGED <<openOutcome, sideVars>>

\* ---- exchangeCodeForTokens, the response ('end') handler ----

\* statusCode !== 200 rejects; JSON.parse of a body that is not JSON throws.
StoresAnyAnswer(resp) == resp # "requestError"
ExchangeStores(resp) == resp = "ok200"

\* The error the exchange promise is rejected with.
ExchangeError(resp) ==
    IF resp = "status400" THEN "ExchangeFailed"
    ELSE IF resp = "garbage200" THEN "ParseError"
    ELSE "RequestError"

\* 200 and parsed: secrets.store(ACCESS_TOKEN_KEY, ...), first await
ExchangeStoreAccess(i, resp, ttl) ==
    /\ accessToken' = ExchangeToken(i)
    /\ xphase' = [xphase EXCEPT ![i] = "access"]
    /\ xresp' = [xresp EXCEPT ![i] = resp]
    /\ xrecv' = [xrecv EXCEPT ![i] = now]
    /\ xttl' = [xttl EXCEPT ![i] = ttl]
    /\ UNCHANGED <<pendingAuthResolve, pendingAuthReject, authState,
                   codeVerifier, server, srv, extPort, pc, timer, promise,
                   invoked, requests, inflight, cbCount, lastMessage,
                   refreshToken, tokenExpiry, now, checkVars>>
    /\ UNCHANGED <<openOutcome, sideVars>>

\* secrets.store(REFRESH_TOKEN_KEY, ...), second await
ExchangeStoreRefresh(i) ==
    /\ ~Busy
    /\ xphase[i] = "access"
    /\ refreshToken' = ExchangeToken(i)
    /\ xphase' = [xphase EXCEPT ![i] = "refresh"]
    /\ UNCHANGED <<pendingAuthResolve, pendingAuthReject, authState,
                   codeVerifier, server, srv, extPort, pc, timer, promise,
                   invoked, requests, inflight, cbCount, lastMessage,
                   accessToken, tokenExpiry, now, xresp, xrecv, xttl,
                   checkVars>>
    /\ UNCHANGED <<openOutcome, sideVars>>

\* Date.now() is read after the two awaited secrets.store calls
ExpiryClock(t, received) == t

\* expiryTime = Date.now() + expires_in * 1000; globalState.update, third await
ExchangeStoreExpiry(i) ==
    /\ ~Busy
    /\ xphase[i] = "refresh"
    /\ tokenExpiry' = ExpiryClock(now, xrecv[i]) + xttl[i]
    /\ xphase' = [xphase EXCEPT ![i] = "expiry"]
    /\ xrecv' = [xrecv EXCEPT ![i] = 0]
    /\ xttl' = [xttl EXCEPT ![i] = 0]
    /\ UNCHANGED <<pendingAuthResolve, pendingAuthReject, authState,
                   codeVerifier, server, srv, extPort, pc, timer, promise,
                   invoked, requests, inflight, cbCount, lastMessage,
                   accessToken, refreshToken, now, xresp, checkVars>>
    /\ UNCHANGED <<openOutcome, sideVars>>

\* ---- exchange promise resolved: rest of the try block, then clean up ----
ExchangeSuccess(i) ==
    /\ ~Busy
    /\ i \in inflight
    /\ xphase[i] = "expiry"
    /\ xphase' = [xphase EXCEPT ![i] = "done"]
    /\ inflight' = inflight \ {i}
    /\ IF pendingAuthResolve # Undefined
       THEN /\ promise' = Settle(promise, pendingAuthResolve, "resolved")
            /\ invoked' = [invoked EXCEPT ![pendingAuthResolve] = @ + 1]
            /\ lastMessage' = ConnectedMsg
       ELSE \* this.pendingAuthResolve() throws a TypeError, caught below
            /\ IF pendingAuthReject # Undefined
               THEN /\ promise' = Settle(promise, pendingAuthReject, "TypeError")
                    /\ invoked' = [invoked EXCEPT ![pendingAuthReject] = @ + 1]
               ELSE UNCHANGED <<promise, invoked>>
            /\ lastMessage' = ExchangeErrorMsg
    /\ pendingAuthResolve' = Undefined
    /\ pendingAuthReject' = Undefined
    /\ srv' = stopServerSrv
    /\ server' = stopServerField
    /\ UNCHANGED <<authState, codeVerifier, extPort, pc, timer, requests,
                   cbCount, tokenVars, now, xresp, xrecv, xttl, checkVars>>
    /\ UNCHANGED <<openOutcome, sideVars>>

\* ---- exchange promise rejected: catch branch, then clean up ----
ExchangeFailure(i, resp) ==
    /\ i \in inflight
    /\ inflight' = inflight \ {i}
    /\ xphase' = [xphase EXCEPT ![i] = "done"]
    /\ xresp' = [xresp EXCEPT ![i] = resp]
    /\ IF pendingAuthReject # Undefined
       THEN /\ promise' = Settle(promise, pendingAuthReject, ExchangeError(resp))
            /\ invoked' = [invoked EXCEPT ![pendingAuthReject] = @ + 1]
       ELSE UNCHANGED <<promise, invoked>>
    /\ lastMessage' = ExchangeErrorMsg
    /\ pendingAuthResolve' = Undefined
    /\ pendingAuthReject' = Undefined
    /\ srv' = stopServerSrv
    /\ server' = stopServerField
    /\ UNCHANGED <<authState, codeVerifier, extPort, pc, timer, requests,
                   cbCount, tokenVars, now, xrecv, xttl, checkVars>>
    /\ UNCHANGED <<openOutcome, sideVars>>

\* ---- the token endpoint answers request i (or the request fails) ----
ExchangeResponse(i, resp, ttl) ==
    /\ ~Busy
    /\ xphase[i] = "wait"
    /\ IF ExchangeStores(resp)
       THEN ExchangeStoreAccess(i, resp, ttl)
       ELSE ExchangeFailure(i, resp)

\* ---- isAuthenticated() and refreshAccessToken() ----
coordVars == <<pendingAuthResolve, pendingAuthReject, authState, codeVerifier,
               server, srv, extPort, pc, timer, promise, invoked, requests,
               inflight, cbCount, lastMessage>>

\* if (tokenExpiry - 300000 < now)
RefreshWhenAtBuffer(expiry, t) == expiry - Buffer <= t
NeedsRefresh(expiry, t) == expiry - Buffer < t

\* await secrets.get(ACCESS_TOKEN_KEY)
IsAuthenticated(k) ==
    /\ ~Busy
    /\ cpc[k] = "init"
    /\ \A j \in Checks : j < k => cpc[j] # "init"
    /\ cAccess' = [cAccess EXCEPT ![k] = accessToken]
    /\ cpc' = [cpc EXCEPT ![k] = "gotAccess"]
    /\ UNCHANGED <<coordVars, tokenVars, now, xVars, cResult, refreshSent,
                   cresp, crecv, cttl>>
    /\ UNCHANGED <<openOutcome, sideVars>>

\* globalState.get(TOKEN_EXPIRY_KEY), the two tests, the call of
\* refreshAccessToken up to `await secrets.get(REFRESH_TOKEN_KEY)`
IsAuthDecide(k) ==
    /\ ~Busy
    /\ cpc[k] = "gotAccess"
    /\ IF cAccess[k] = 0 \/ tokenExpiry = 0
       THEN /\ cResult' = [cResult EXCEPT ![k] = "false"]
            /\ cpc' = [cpc EXCEPT ![k] = "done"]
       ELSE IF NeedsRefresh(tokenExpiry, now)
       THEN /\ cpc' = [cpc EXCEPT ![k] = "refreshGet"]
            /\ UNCHANGED cResult
       ELSE /\ cResult' = [cResult EXCEPT ![k] = "true"]
            /\ cpc' = [cpc EXCEPT ![k] = "done"]
    /\ UNCHANGED <<coordVars, tokenVars, now, xVars, cAccess, refreshSent,
                   cresp, crecv, cttl>>
    /\ UNCHANGED <<openOutcome, sideVars>>

\* refreshAccessToken: no stored refresh token -> false, else the POST
RefreshSend(k) ==
    /\ ~Busy
    /\ cpc[k] = "refreshGet"
    /\ IF refreshToken = 0
       THEN /\ cResult' = [cResult EXCEPT ![k] = "false"]
            /\ cpc' = [cpc EXCEPT ![k] = "done"]
            /\ UNCHANGED refreshSent
       ELSE /\ refreshSent' = [refreshSent EXCEPT ![k] = refreshToken]
            /\ cpc' = [cpc EXCEPT ![k] = "refreshWait"]
            /\ UNCHANGED cResult
    /\ UNCHANGED <<coordVars, tokenVars, now, xVars, cAccess, cresp, crecv, cttl>>
    /\ UNCHANGED <<openOutcome, sideVars>>

\* statusCode !== 200 and a JSON.parse error resolve(false)
RefreshStores(resp) == resp \in {"ok200rt", "ok200"}

\* resolve(false) on every failure path; isAuthenticated returns that value
RefreshFailureThrows(resp) == "threw"
RefreshFailureResult(resp) == "false"

\* the 'end' / 'error' handler of the refresh request
RefreshResponse(k, resp, ttl) ==
    /\ ~Busy
    /\ cpc[k] = "refreshWait"
    /\ cresp' = [cresp EXCEPT ![k] = resp]
    /\ IF RefreshStores(resp)
       THEN /\ accessToken' = RefreshTokenOf(k)
            /\ crecv' = [crecv EXCEPT ![k] = now]
            /\ cttl' = [cttl EXCEPT ![k] = ttl]
            /\ cpc' = [cpc EXCEPT ![k] = "access"]
            /\ UNCHANGED cResult
       ELSE /\ cResult' = [cResult EXCEPT ![k] = RefreshFailureResult(resp)]
            /\ cpc' = [cpc EXCEPT ![k] = "done"]
            /\ UNCHANGED <<accessToken, crecv, cttl>>
    /\ UNCHANGED <<coordVars, refreshToken, tokenExpiry, now, xVars, cAccess,
                   refreshSent>>
    /\ UNCHANGED <<openOutcome, sideVars>>

\* if (tokenData.refresh_token) await secrets.store(REFRESH_TOKEN_KEY, ...)
AlwaysStoresRefreshToken(resp) == TRUE
StoresRefreshToken(resp) == resp = "ok200rt"
\* tokenData.refresh_token: undefined when the answer omits it
ResponseRefreshToken(k, resp) == IF resp = "ok200rt" THEN RefreshTokenOf(k) ELSE 0

RefreshStoreRefresh(k) ==
    /\ ~Busy
    /\ cpc[k] = "access"
    /\ StoresRefreshToken(cresp[k])
    /\ refreshToken' = ResponseRefreshToken(k, cresp[k])
    /\ cpc' = [cpc EXCEPT ![k] = "refresh"]
    /\ UNCHANGED <<coordVars, accessToken, tokenExpiry, now, xVars, cAccess,
                   cResult, refreshSent, cresp, crecv, cttl>>
    /\ UNCHANGED <<openOutcome, sideVars>>

\* expiryTime = Date.now() + expires_in * 1000; globalState.update; resolve(true)
RefreshStoreExpiry(k) ==
    /\ ~Busy
    /\ \/ cpc[k] = "refresh"
       \/ cpc[k] = "access" /\ ~StoresRefreshToken(cresp[k])
    /\ tokenExpiry' = ExpiryClock(now, crecv[k]) + cttl[k]
    /\ cResult' = [cResult EXCEPT ![k] = "true"]
    /\ cpc' = [cpc EXCEPT ![k] = "done"]
    /\ crecv' = [crecv EXCEPT ![k] = 0]
    /\ cttl' = [cttl EXCEPT ![k] = 0]
    /\ UNCHANGED <<coordVars, accessToken, refreshToken, now, xVars, cAccess,
                   refreshSent, cresp>>
    /\ UNCHANGED <<openOutcome, sideVars>>

\* ---- time passes ----
Tick ==
    /\ ~Busy
    /\ now < MaxTime
    /\ now' = now + 1
    /\ UNCHANGED <<pendingAuthResolve, pendingAuthReject, authState,
                   codeVerifier, server, srv, extPort, pc, timer, promise,
                   invoked, requests, inflight, cbCount, lastMessage,
                   tokenVars, xVars, checkVars>>
    /\ UNCHANGED <<openOutcome, sideVars>>

\* ---- another application takes or frees port 3000 ----
ExternalBind ==
    /\ ~Busy
    /\ ~PortHeld
    /\ extPort' = TRUE
    /\ UNCHANGED <<pendingAuthResolve, pendingAuthReject, authState, codeVerifier,
                   server, srv, pc, timer, promise, invoked, requests,
                   inflight, cbCount, lastMessage,
                   tokenVars, now, xVars, checkVars>>
    /\ UNCHANGED <<openOutcome, sideVars>>

ExternalRelease ==
    /\ ~Busy
    /\ extPort
    /\ extPort' = FALSE
    /\ UNCHANGED <<pendingAuthResolve, pendingAuthReject, authState, codeVerifier,
                   server, srv, pc, timer, promise, invoked, requests,
                   inflight, cbCount, lastMessage,
                   tokenVars, now, xVars, checkVars>>
    /\ UNCHANGED <<openOutcome, sideVars>>

\* ---- openAuthUrl: the result of vscode.env.openExternal(authUrl) ----
OpenSilent(outcome) == "none"
OpenMessage(outcome) ==
    IF outcome = "opened" THEN OpenedMsg
    ELSE IF outcome = "refused" THEN OpenRefusedMsg
    ELSE OpenErrorMsg

OpenResult(a, outcome) ==
    /\ ~Busy
    /\ openOutcome[a] = "pending"
    /\ openOutcome' = [openOutcome EXCEPT ![a] = outcome]
    /\ lastMessage' = OpenMessage(outcome)
    /\ UNCHANGED <<pendingAuthResolve, pendingAuthReject, authState,
                   codeVerifier, server, srv, extPort, pc, timer, promise,
                   invoked, requests, inflight, cbCount,
                   tokenVars, now, xVars, checkVars, sideVars>>

\* ---- AuthCallbackServer: the request handler ----
send404Response == [status |-> 404, type |-> "text/plain", body |-> <<"Not Found">>]
sendErrorResponse(message) ==
    [status |-> 400, type |-> "text/plain", body |-> <<"Error: ", message>>]
getSuccessPageHtml == <<"<success page>">>
\* the template of the error page around ${error}
getErrorPageHtml(error) == <<"<strong>Error: ">> \o error \o <<"</strong>">>

TruthyStr(v) == Len(v) > 0

RespondErrorFirst(path, code, error) ==
    IF path # "/callback" THEN send404Response
    ELSE IF TruthyStr(error)
    THEN [status |-> 200, type |-> "text/html", body |-> getErrorPageHtml(error)]
    ELSE IF Truthy(code)
    THEN [status |-> 200, type |-> "text/html", body |-> getSuccessPageHtml]
    ELSE sendErrorResponse("Missing authorization code or error parameter")
Respond(path, code, error) ==
    IF path # "/callback" THEN send404Response
    ELSE IF Truthy(code)
    THEN [status |-> 200, type |-> "text/html", body |-> getSuccessPageHtml]
    ELSE IF TruthyStr(error)
    THEN [status |-> 200, type |-> "text/html", body |-> getErrorPageHtml(error)]
    ELSE sendErrorResponse("Missing authorization code or error parameter")

\* the setTimeout(..., 3000) of the success branch
SchedulesOnAnyResult(path, code, error) ==
    path = "/callback" /\ (Truthy(code) \/ TruthyStr(error))
SchedulesHandoff(path, code, error) == path = "/callback" /\ Truthy(code)

\* code=${encodeURIComponent(code)}&state=${encodeURIComponent(state || '')}
HandoffUriDropsState(code, state) == [code |-> code, state |-> 0]
HandoffUri(code, state) ==
    [code |-> code, state |-> IF Truthy(state) THEN state ELSE 0]

\* a request reaches a listening server of this program
HttpRequest(path, code, error, state) ==
    /\ ~Busy
    /\ OwnListeners # {}
    /\ lastResponse' = Respond(path, code, error)
    /\ IF SchedulesHandoff(path, code, error)
       THEN /\ Len(handoff) < MaxRequests
            /\ handoff' = Append(handoff, [code |-> code, state |-> state,
                                           fired |-> FALSE])
       ELSE UNCHANGED handoff
    /\ UNCHANGED <<pendingAuthResolve, pendingAuthReject, authState,
                   codeVerifier, server, srv, extPort, pc, timer, promise,
                   invoked, requests, inflight, cbCount, lastMessage,
                   tokenVars, now, xVars, checkVars, openOutcome, opened,
                   pomodoroVars>>

\* the hand-off timer of the i-th success response fires (equal delays: in
\* the order they were set): vscode.env.openExternal(vscode://...)
HandoffFire(i) ==
    /\ ~Busy
    /\ i \in 1..Len(handoff)
    /\ ~handoff[i].fired
    /\ \A j \in 1..(i - 1) : handoff[j].fired
    /\ handoff' = [handoff EXCEPT ![i].fired = TRUE]
    /\ opened' = Append(opened, HandoffUri(handoff[i].code, handoff[i].state))
    /\ UNCHANGED <<pendingAuthResolve, pendingAuthReject, authState,
                   codeVerifier, server, srv, extPort, pc, timer, promise,
                   invoked, requests, inflight, cbCount, lastMessage,
                   tokenVars, now, xVars, checkVars, openOutcome, lastResponse,
                   pomodoroVars>>

Next ==
    \/ \E a \in Attempts : Authenticate(a)
    \/ \E a \in Attempts : ListenOk(a)
    \/ \E a \in Attempts : ListenError(a)
    \/ \E a \in Attempts : Timeout(a)
    \/ \E s \in StateParams, c \in CodeParams, e \in ErrorParams : HandleAuthCallback(s, c, e)
    \/ \E i \in Exchanges, resp \in Responses, ttl \in TTLs : ExchangeResponse(i, resp, ttl)
    \/ \E i \in Exchanges : ExchangeStoreRefresh(i)
    \/ \E i \in Exchanges : ExchangeStoreExpiry(i)
    \/ \E i \in Exchanges : ExchangeSuccess(i)
    \/ ExternalBind
    \/ ExternalRelease

\* The coordinator never reads the clock or the isAuthenticated() calls, so
\* Spec leaves them out; TokenSpec follows one attempt with one hand-off
\* together with the clock and the isAuthenticated() calls.
TokenNext ==
    \/ Authenticate(1)
    \/ ListenOk(1)
    \/ ListenError(1)
    \/ Timeout(1)
    \/ \E s \in StateParams, c \in CodeParams, e \in ErrorParams :
          cbCount = 0 /\ HandleAuthCallback(s, c, e)
    \/ \E i \in Exchanges, resp \in Responses, ttl \in TTLs : ExchangeResponse(i, resp, ttl)
    \/ \E i \in Exchanges : ExchangeStoreRefresh(i)
    \/ \E i \in Exchanges : ExchangeStoreExpiry(i)
    \/ \E i \in Exchanges : ExchangeSuccess(i)
    \/ \E k \in TokenChecks : IsAuthenticated(k)
    \/ \E k \in TokenChecks : IsAuthDecide(k)
    \/ \E k \in TokenChecks : RefreshSend(k)
    \/ \E k \in TokenChecks, resp \in RefreshResponses, ttl \in TTLs : RefreshResponse(k, resp, ttl)
    \/ \E k \in TokenChecks : RefreshStoreRefresh(k)
    \/ \E k \in TokenChecks : RefreshStoreExpiry(k)
    \/ Tick

TokenSpec == Init /\ [][TokenNext]_vars

\* PollSpec follows overlapping isAuthenticated() calls (the status bar
\* polls every 2 seconds and does not wait for the previous call) on a
\* record kept from an earlier run, with no authentication attempt.
PollNext ==
    \/ \E k \in Checks : IsAuthenticated(k)
    \/ \E k \in Checks : IsAuthDecide(k)
    \/ \E k \in Checks : RefreshSend(k)
    \/ \E k \in Checks, resp \in RefreshResponses, ttl \in TTLs : RefreshResponse(k, resp, ttl)
    \/ \E k \in Checks : RefreshStoreRefresh(k)
    \/ \E k \in Checks : RefreshStoreExpiry(k)
    \/ Tick

PollInit == Init /\ ~extPort /\ accessToken = PriorToken /\ refreshToken = PriorToken
PollSpec == PollInit /\ [][PollNext]_vars

\* ListenerSpec follows the callback listener: one attempt's listen, the
\* result of opening the browser and the timeout, the requests the listener
\* serves and its hand-off timers, on a first run (nothing stored yet).
ListenerNext ==
    \/ Authenticate(1)
    \/ ListenOk(1)
    \/ ListenError(1)
    \/ \E o \in OpenResults : OpenResult(1, o)
    \/ Timeout(1)
    \/ \E path \in Paths, c \in HttpCodes, e \in HttpErrors, s \in HttpStates :
          HttpRequest(path, c, e, s)
    \/ \E i \in 1..MaxRequests : HandoffFire(i)

ListenerInit == Init /\ ~extPort /\ accessToken = 0

ListenerSpec == ListenerInit /\ [][ListenerNext]_vars

\* The 3-second hand-off timers do fire.
FairListenerSpec ==
    ListenerSpec /\ \A i \in 1..MaxRequests : WF_vars(HandoffFire(i))

Spec == Init /\ [][Next]_vars

\* The timers, the listen events and the token endpoint's answers do happen.
FairSpec ==
    /\ Spec
    /\ \A a \in Attempts : WF_vars(Timeout(a))
    /\ \A a \in Attempts : WF_vars(ListenOk(a) \/ ListenError(a))
    /\ \A i \in Exchanges :
          WF_vars(\/ \E resp \in Responses, ttl \in TTLs : ExchangeResponse(i, resp, ttl)
                  \/ ExchangeStoreRefresh(i)
                  \/ ExchangeStoreExpiry(i)
                  \/ ExchangeSuccess(i))

\* ---- PomodoroTimer ----
authVars == <<pendingAuthResolve, pendingAuthReject, authState, codeVerifier,
              server, srv, extPort, pc, timer, promise, invoked, requests,
              inflight, cbCount, lastMessage, tokenVars, now, xVars, checkVars,
              openOutcome, httpVars>>
configVars == <<transitionMode, showNotifications>>

\* startTimer(): this.timer = setInterval(...); an interval the field still
\* holds is not cleared and keeps running
startTimerOrphans == IF ticker THEN orphanTickers + 1 ELSE orphanTickers
CanStartTimer == ticker => orphanTickers < MaxOrphans

shouldTakeLongBreak(completed) == completed % LongBreakAfter = 0

\* saveState(), called last in a handler: the fields as the handler leaves
\* them
saveState ==
    savedState' = [state |-> timerState',
                   remainingTime |-> remainingTime',
                   completedIntervals |-> completedIntervals',
                   intervalSeconds |-> intervalSeconds]

\* the fields loadState() sets from the saved entry, `elapsed` seconds after
\* it was written
loadState(saved, elapsed) ==
    IF saved = NoSavedState
    THEN [state |-> "stopped", remainingTime |-> 0, completedIntervals |-> 0]
    ELSE IF saved.state # "stopped" /\ saved.remainingTime > 0
    THEN (IF saved.remainingTime - elapsed <= 0
          THEN [state |-> "stopped", remainingTime |-> 0,
                completedIntervals |-> saved.completedIntervals]
          ELSE [state |-> saved.state,
                remainingTime |-> saved.remainingTime - elapsed,
                completedIntervals |-> saved.completedIntervals])
    ELSE [state |-> saved.state, remainingTime |-> 0,
          completedIntervals |-> saved.completedIntervals]

\* state, remainingTime and startTimer() of the start...Interval methods
StartInterval(st, seconds) ==
    /\ CanStartTimer
    /\ timerState' = st
    /\ remainingTime' = seconds
    /\ ticker' = TRUE
    /\ orphanTickers' = startTimerOrphans
    /\ intervalSeconds' = seconds

\* resume()
ResumeEffect ==
    IF ~ticker /\ remainingTime > 0
    THEN /\ ticker' = TRUE
         /\ UNCHANGED <<timerState, remainingTime, orphanTickers,
                        intervalSeconds>>
    ELSE UNCHANGED <<timerState, remainingTime, ticker, orphanTickers,
                     intervalSeconds>>

\* the end of skip... and complete...: with transitionMode 'auto', or with
\* notifications off, the next interval's start is given to setTimeout;
\* otherwise the completion notification is shown
Transition(next) ==
    IF transitionMode = "auto" \/ ~showNotifications
    THEN /\ Len(delayed) < MaxDelayed
         /\ delayed' = Append(delayed, next)
         /\ UNCHANGED prompts
    ELSE /\ Len(prompts) < MaxPrompts
         /\ prompts' = Append(prompts, next)
         /\ UNCHANGED delayed

\* start()
Start ==
    /\ IF timerState = "stopped"
       THEN StartInterval("work", WorkSeconds)
       ELSE ResumeEffect
    /\ stopRequested' = FALSE
    /\ UNCHANGED <<completedIntervals, isCustomSession, customBreakDuration,
                   delayed, prompts, customPc, configVars, authVars>>
    /\ UNCHANGED savedState

\* startCustom(): the call, up to its first await
StartCustomBegin ==
    /\ customPc = "idle"
    /\ customPc' = IF timerState # "stopped" THEN "confirm" ELSE "inputs"
    /\ stopRequested' = FALSE
    /\ UNCHANGED <<timerState, ticker, orphanTickers, remainingTime,
                   completedIntervals, isCustomSession, customBreakDuration,
                   delayed, prompts, configVars, authVars>>
    /\ UNCHANGED <<savedState, intervalSeconds>>

\* startCustom(): the warning is answered
StartCustomConfirm(stopIt) ==
    /\ customPc = "confirm"
    /\ IF stopIt
       THEN /\ ticker' = FALSE
            /\ timerState' = "stopped"
            /\ customPc' = "inputs"
       ELSE /\ customPc' = "idle"
            /\ UNCHANGED <<ticker, timerState>>
    /\ UNCHANGED <<orphanTickers, remainingTime, completedIntervals,
                   isCustomSession, customBreakDuration, delayed, prompts,
                   stopRequested, configVars, authVars>>
    /\ IF stopIt THEN saveState ELSE UNCHANGED savedState
    /\ UNCHANGED intervalSeconds

\* startCustom(): the two input boxes are answered (or one is dismissed),
\* then startCustomWorkInterval
StartCustomInputs(entered, workSeconds, breakSeconds) ==
    /\ customPc = "inputs"
    /\ customPc' = "idle"
    /\ IF entered
       THEN /\ StartInterval("work", workSeconds)
            /\ customBreakDuration' = breakSeconds
            /\ isCustomSession' = TRUE
       ELSE UNCHANGED <<timerState, remainingTime, ticker, orphanTickers,
                        customBreakDuration, isCustomSession,
                        intervalSeconds>>
    /\ UNCHANGED <<completedIntervals, delayed, prompts, stopRequested,
                   configVars, authVars>>
    /\ UNCHANGED savedState

\* stop()
Stop ==
    /\ ticker' = FALSE
    /\ timerState' = "stopped"
    /\ stopRequested' = TRUE
    /\ UNCHANGED <<orphanTickers, remainingTime, completedIntervals,
                   isCustomSession, customBreakDuration, delayed, prompts,
                   customPc, configVars, authVars>>
    /\ saveState
    /\ UNCHANGED intervalSeconds

\* reset()
Reset ==
    /\ ticker' = FALSE
    /\ timerState' = "stopped"
    /\ stopRequested' = TRUE
    /\ remainingTime' = 0
    /\ completedIntervals' = 0
    /\ UNCHANGED <<orphanTickers, isCustomSession, customBreakDuration,
                   delayed, prompts, customPc, configVars, authVars>>
    /\ saveState
    /\ UNCHANGED intervalSeconds

\* skip(): skipWorkInterval / skipBreakInterval
Skip ==
    /\ IF timerState = "work"
       THEN ticker' = FALSE /\ Transition("startBreakInterval")
       ELSE IF timerState \in Breaks
       THEN ticker' = FALSE /\ Transition("startWorkInterval")
       ELSE UNCHANGED <<ticker, delayed, prompts>>
    /\ UNCHANGED <<timerState, orphanTickers, remainingTime,
                   completedIntervals, isCustomSession, customBreakDuration,
                   customPc, stopRequested, configVars, authVars>>
    /\ IF timerState # "stopped" THEN saveState ELSE UNCHANGED savedState
    /\ UNCHANGED intervalSeconds

\* pause()
Pause ==
    /\ ticker
    /\ ticker' = FALSE
    /\ UNCHANGED <<timerState, orphanTickers, remainingTime,
                   completedIntervals, isCustomSession, customBreakDuration,
                   delayed, prompts, customPc, stopRequested, configVars,
                   authVars>>
    /\ saveState
    /\ UNCHANGED intervalSeconds

\* resume(), as the control panel and the pause command call it
Resume ==
    /\ ResumeEffect
    /\ UNCHANGED <<completedIntervals, isCustomSession, customBreakDuration,
                   delayed, prompts, customPc, stopRequested, configVars,
                   authVars>>
    /\ UNCHANGED savedState

\* the full time restart() gives the current interval
RestartSeconds ==
    IF timerState = "work"
    THEN (IF isCustomSession THEN RestartCustomWorkSeconds ELSE WorkSeconds)
    ELSE IF timerState = "shortBreak"
    THEN (IF isCustomSession
          THEN (IF customBreakDuration # NoDuration THEN customBreakDuration
                ELSE CustomBreakFallback)
          ELSE ShortBreakSeconds)
    ELSE LongBreakSeconds

\* restart()
Restart ==
    /\ timerState # "stopped"
    /\ remainingTime' = RestartSeconds
    /\ ticker' = TRUE
    /\ UNCHANGED <<timerState, orphanTickers, completedIntervals,
                   isCustomSession, customBreakDuration, delayed, prompts,
                   customPc, stopRequested, configVars, authVars>>
    /\ UNCHANGED <<savedState, intervalSeconds>>

\* the setInterval callback of any running interval: one second passes;
\* at zero completeWorkInterval / completeBreakInterval
IntervalFire ==
    /\ ticker \/ orphanTickers > 0
    /\ remainingTime > -MaxOverrun
    /\ remainingTime' = remainingTime - 1
    /\ IF remainingTime - 1 > 0
       THEN UNCHANGED <<ticker, completedIntervals, isCustomSession,
                        customBreakDuration, delayed, prompts>>
       ELSE IF timerState = "work"
       THEN /\ ticker' = FALSE
            /\ completedIntervals < MaxCompleted
            /\ completedIntervals' = completedIntervals + 1
            /\ Transition(IF isCustomSession THEN "startCustomBreakInterval"
                           ELSE "startBreakInterval")
            /\ UNCHANGED <<isCustomSession, customBreakDuration>>
       ELSE /\ ticker' = FALSE
            /\ isCustomSession' = FALSE
            /\ customBreakDuration' =
                  (IF isCustomSession THEN NoDuration ELSE customBreakDuration)
            /\ Transition("startWorkInterval")
            /\ UNCHANGED completedIntervals
    /\ UNCHANGED <<timerState, orphanTickers, customPc, stopRequested,
                   configVars, authVars>>
    /\ saveState
    /\ UNCHANGED intervalSeconds

\* the oldest setTimeout(..., 1000) callback runs
DelayedFire ==
    /\ delayed # <<>>
    /\ delayed' = Tail(delayed)
    /\ IF Head(delayed) = "startWorkInterval"
       THEN StartInterval("work", WorkSeconds)
       ELSE IF Head(delayed) = "startBreakInterval"
       THEN (IF shouldTakeLongBreak(completedIntervals)
             THEN StartInterval("longBreak", LongBreakSeconds)
             ELSE StartInterval("shortBreak", ShortBreakSeconds))
       ELSE StartInterval("shortBreak",
                          IF customBreakDuration # NoDuration
                          THEN customBreakDuration ELSE CustomBreakFallback)
    /\ UNCHANGED <<completedIntervals, isCustomSession, customBreakDuration,
                   prompts, customPc, stopRequested, configVars, authVars>>
    /\ UNCHANGED savedState

\* the completion notification i is answered or dismissed
PromptAnswer(i, selection) ==
    /\ i \in 1..Len(prompts)
    /\ prompts' = SubSeq(prompts, 1, i - 1) \o SubSeq(prompts, i + 1, Len(prompts))
    /\ IF selection = "Continue"
       THEN /\ Len(delayed) < MaxDelayed
            /\ delayed' = Append(delayed, prompts[i])
            /\ UNCHANGED <<ticker, timerState, stopRequested>>
       ELSE IF selection = "Stop Timer"
       THEN /\ ticker' = FALSE
            /\ timerState' = "stopped"
            /\ stopRequested' = TRUE
            /\ UNCHANGED delayed
       ELSE UNCHANGED <<delayed, ticker, timerState, stopRequested>>
    /\ UNCHANGED <<orphanTickers, remainingTime, completedIntervals,
                   isCustomSession, customBreakDuration, customPc, configVars,
                   authVars>>
    /\ IF selection = "Stop Timer" THEN saveState ELSE UNCHANGED savedState
    /\ UNCHANGED intervalSeconds

\* the window is closed and opened again `elapsed` seconds after the last
\* saveState: every timer and notification of the old extension host is gone,
\* the constructor of the new PomodoroTimer runs loadState()
Reload(elapsed) ==
    /\ timerState' = loadState(savedState, elapsed).state
    /\ remainingTime' = loadState(savedState, elapsed).remainingTime
    /\ completedIntervals' = loadState(savedState, elapsed).completedIntervals
    /\ ticker' = FALSE
    /\ orphanTickers' = 0
    /\ isCustomSession' = FALSE
    /\ customBreakDuration' = NoDuration
    /\ delayed' = <<>>
    /\ prompts' = <<>>
    /\ customPc' = "idle"
    /\ stopRequested' = FALSE
    /\ intervalSeconds' = savedState.intervalSeconds
    /\ UNCHANGED <<savedState, configVars, authVars>>

TimerNext ==
    \/ Start
    \/ StartCustomBegin
    \/ \E stopIt \in BOOLEAN : StartCustomConfirm(stopIt)
    \/ \E entered \in BOOLEAN, w \in CustomWorkChoices, b \in CustomBreakChoices :
          StartCustomInputs(entered, w, b)
    \/ Stop
    \/ Reset
    \/ Skip
    \/ Pause
    \/ Resume
    \/ Restart
    \/ IntervalFire
    \/ DelayedFire
    \/ \E i \in 1..MaxPrompts, selection \in Selections : PromptAnswer(i, selection)
    \/ \E elapsed \in Elapsed : Reload(elapsed)

\* PomodoroTimer alone, under each combination of the two settings
TimerInit ==
    /\ ServiceInit
    /\ ~extPort
    /\ accessToken = 0
    /\ FreshTimer
    /\ transitionMode \in {"auto", "manual"}
    /\ showNotifications \in BOOLEAN
TimerSpec == TimerInit /\ [][TimerNext]_vars

\* ---- derived notions ----
Rejections == {"CsrfMismatch", "PortInUse", "BindError", "ProviderDenied",
               "ExchangeFailed", "ParseError", "RequestError", "TypeError",
               "Timeout"}

\* Idle: no pending session is stored and no exchange is in progress.
Idle ==
    /\ ~Busy
    /\ pendingAuthResolve = Undefined
    /\ pendingAuthReject = Undefined
    /\ inflight = {}

\* Every attempt made so far is over: Idle and no timeout still armed.
AllEnded == Idle /\ \A a \in Attempts : timer[a] # "armed"

RequestsOf(a) == {i \in 1..Len(requests) : requests[i].code_verifier = a}

\* ---- claims ----

\* C1: whenever handleAuthCallback is invoked with a state different from the
\* stored authState, the step issues no token request, reports the security
\* (CSRF) error, and rejects the stored pending promise with the CSRF error.
C1_CsrfRejectedWithoutExchange ==
    [][\A s \in StateParams, c \in CodeParams, e \in ErrorParams :
          (HandleAuthCallback(s, c, e) /\ s # authState) =>
             /\ requests' = requests
             /\ inflight' = inflight
             /\ lastMessage' = SecurityErrorMsg
             /\ \A a \in Attempts :
                   (pendingAuthReject = a /\ promise[a] = "pending")
                      => promise'[a] = "CsrfMismatch"]_vars

C1_Witness ==
    /\ lastMessage = SecurityErrorMsg
    /\ requests = <<>>
    /\ \E a \in Attempts : promise[a] = "CsrfMismatch" /\ authState = a

\* C2: one pending session causes at most one token-exchange request, however
\* often (and whenever) its callback is delivered.
C2_OneExchangePerSession ==
    \A a \in Attempts : Cardinality(RequestsOf(a)) <= 1

\* C3: the coordinator is never Idle while a listener started by one of its
\* attempts is still bound to the port.
C3_IdleHasNoListener ==
    Idle => OwnListeners = {}

\* C4: for an attempt that reached the point where callbacks and its timeout
\* race, the resolve/reject continuation is invoked at most once.
C4_ContinuationInvokedAtMostOnce ==
    \A a \in Attempts : pc[a] = "done" => invoked[a] <= 1

\* C5: when the timeout of an attempt whose listener started has fired and no
\* callback was delivered, the attempt is rejected with the timeout error and
\* its listener no longer holds the port.
C5_TimeoutRejectsAndStops ==
    \A a \in Attempts :
       (timer[a] = "fired" /\ cbCount = 0) =>
           (promise[a] = "Timeout" /\ srv[a] # "listening")

\* C6: an authenticate() call made while a pending session is stored and
\* unsettled leaves that session's continuations, state, verifier and
\* listener handle as they are.
C6_SecondCallKeepsFirstSession ==
    [][\A b \in Attempts :
          (/\ Authenticate(b)
           /\ pendingAuthReject # Undefined
           /\ promise[pendingAuthReject] = "pending") =>
             /\ pendingAuthResolve' = pendingAuthResolve
             /\ pendingAuthReject' = pendingAuthReject
             /\ authState' = authState
             /\ codeVerifier' = codeVerifier
             /\ server' = server]_vars

\* C7: once an attempt's promise is rejected, none of its continuations is
\* left stored.
C7_RejectedSessionDestroyed ==
    \A a \in Attempts :
       promise[a] \in Rejections =>
           (pendingAuthResolve # a /\ pendingAuthReject # a)

\* C8: every authenticate() call eventually settles (fair timers, listen
\* events and token endpoint answers).
C8_EveryCallSettles ==
    \A a \in Attempts : (pc[a] # "init") ~> (promise[a] # "pending")

\* C9: once every attempt has ended, no listener of an earlier attempt holds
\* the port, so a new authenticate() binds it unless another application has it.
C9_IdleIsReentrant ==
    (AllEnded /\ ~extPort) => ~PortHeld

\* C10: a listen that completes while the port is held fails and rejects the
\* authenticate() promise with the port-in-use error, not the generic one.
C10_PortInUseIsDistinct ==
    [][\A a \in Attempts :
          (pc[a] = "startServer" /\ PortHeld /\ pc'[a] # "startServer") =>
             (srv'[a] = "failed" /\ promise'[a] = "PortInUse")]_vars

C10_Witness ==
    \E a, b \in Attempts :
       /\ a # b
       /\ srv[b] = "listening"
       /\ srv[a] = "failed"
       /\ promise[a] = "PortInUse"

\* ---- token lifecycle ----
RecordAbsent == accessToken = 0 /\ refreshToken = 0 /\ tokenExpiry = 0

\* C11: when the handler that sent exchange request i for a pending session
\* finishes after a 200 answer, the record holds that answer's tokens and an
\* expiry, the session's promise is resolved, its listener is stopped and the
\* coordinator is Idle.
C11_SuccessfulExchangeResolves ==
    [][\A i \in Exchanges :
          (ExchangeSuccess(i) /\ requests[i].pending) =>
             /\ accessToken' = ExchangeToken(i)
             /\ refreshToken' = ExchangeToken(i)
             /\ tokenExpiry' # 0
             /\ promise'[requests[i].session] = "resolved"
             /\ srv'[requests[i].session] # "listening"
             /\ Idle']_vars

\* C12: when the exchange fails (non-200 status, request error or
\* unparsable body), the pending session the request was sent for is
\* rejected with the error carrying the provider's status and body, its
\* listener is stopped and no continuation stays stored.
C12_FailedExchangeRejects ==
    [][\A i \in Exchanges, resp \in {"status400", "garbage200", "requestError"} :
          (/\ xphase[i] = "wait" /\ xphase'[i] = "done" /\ xresp'[i] = resp
           /\ requests[i].pending) =>
             /\ promise'[requests[i].session] = "ExchangeFailed"
             /\ srv'[requests[i].session] # "listening"
             /\ pendingAuthResolve' = Undefined
             /\ pendingAuthReject' = Undefined]_vars

\* C13: a callback with the stored state, an error parameter and no code
\* (a callback result carries code xor error), arriving while the stored
\* continuation belongs to an unsettled promise, rejects that promise with the
\* provider's error, stops the listener, sends no token request and leaves
\* the coordinator Idle.
C13_ProviderErrorRejects ==
    [][\A s \in StateParams, c \in CodeParams, e \in ErrorParams, a \in Attempts :
          (/\ HandleAuthCallback(s, c, e)
           /\ s = authState /\ e = 1 /\ c = NoParam
           /\ pendingAuthReject = a /\ promise[a] = "pending") =>
             /\ promise'[a] = "ProviderDenied"
             /\ srv'[a] # "listening"
             /\ requests' = requests
             /\ Idle']_vars

\* C14: the stored record is either fully absent or has both an access token
\* and an expiry.
C14_RecordAbsentOrComplete ==
    RecordAbsent \/ (accessToken # 0 /\ tokenExpiry # 0)

\* C15: a step changes the stored record only if it is a storage step of an
\* exchange or of a refresh whose answer was a parsable 200.
C15_RecordChangesOnlyOnSuccess ==
    [][tokenVars' # tokenVars =>
          \/ \E i \in Exchanges :
                /\ xphase'[i] # xphase[i]
                /\ xphase'[i] \in {"access", "refresh", "expiry"}
                /\ xresp'[i] = "ok200"
          \/ \E k \in Checks :
                /\ cpc'[k] # cpc[k]
                /\ cpc[k] \in {"refreshWait", "access", "refresh"}
                /\ cresp'[k] \in {"ok200", "ok200rt"}]_vars

C15_Witness ==
    /\ accessToken = PriorToken
    /\ tokenExpiry # 0
    /\ \E i \in Exchanges : xphase[i] = "done" /\ xresp[i] = "status400"
    /\ \E k \in Checks : cpc[k] = "done" /\ cresp[k] = "garbage200"
    /\ timer[1] = "fired"

\* C16 as stated: isAuthenticated() answers true without a refresh exactly
\* when the access token and the expiry exist and the expiry is MORE than the
\* buffer after now.
C16_TrueIffMoreThanBuffer ==
    [][\A k \in Checks :
          (cpc[k] = "gotAccess" /\ cpc'[k] # "gotAccess") =>
             ((cResult'[k] = "true" /\ cpc'[k] = "done")
                <=> (cAccess[k] # 0 /\ tokenExpiry # 0 /\ tokenExpiry > now + Buffer))]_vars

\* C16 amended: isAuthenticated() answers true without a refresh exactly when
\* the access token and the expiry it read exist and the expiry is AT LEAST the
\* buffer after now; with both present and the expiry less than the buffer
\* after now it starts a refresh and answers what the refresh yields; with
\* either absent it answers false.
C16_TrueIffAtLeastBuffer ==
    /\ [][\A k \in Checks :
            (cpc[k] = "gotAccess" /\ cpc'[k] # "gotAccess") =>
               LET present == cAccess[k] # 0 /\ tokenExpiry # 0 IN
               /\ (cResult'[k] = "true" /\ cpc'[k] = "done")
                     <=> (present /\ tokenExpiry >= now + Buffer)
               /\ (cpc'[k] = "refreshGet" /\ cResult'[k] = "none")
                     <=> (present /\ tokenExpiry < now + Buffer)
               /\ (cResult'[k] = "false" /\ cpc'[k] = "done") <=> ~present]_vars
    /\ [](\A k \in Checks :
            (cpc[k] = "done" /\ cresp[k] # "none") =>
               (cResult[k] = "true" <=> cresp[k] \in {"ok200", "ok200rt"}))

C16_Witness ==
    \E k \in Checks :
       /\ cpc[k] = "done"
       /\ cResult[k] = "true"
       /\ refreshSent[k] = 0
       /\ accessToken # 0
       /\ tokenExpiry = now + Buffer

\* C17: no step of a refresh whose answer omits refresh_token changes the
\* stored refresh token; a refresh whose answer includes one stores it right
\* after the access token.
C17_RefreshTokenRetained ==
    [][\A k \in Checks :
          /\ (cpc'[k] # cpc[k] /\ cresp'[k] = "ok200") => refreshToken' = refreshToken
          /\ (cpc[k] = "access" /\ cpc'[k] # "access" /\ cresp[k] = "ok200rt")
                => refreshToken' = RefreshTokenOf(k)]_vars

C17_Witness ==
    \E k \in Checks :
       /\ cpc[k] = "done"
       /\ cResult[k] = "true"
       /\ cresp[k] = "ok200"
       /\ accessToken = RefreshTokenOf(k)
       /\ refreshToken = PriorToken
       /\ refreshSent[k] = PriorToken

\* C18: a failed refresh never throws: isAuthenticated() answers false; and
\* with no stored refresh token it answers false without sending a request.
C18_FailedRefreshIsFalse ==
    /\ [](\A k \in Checks :
            /\ cResult[k] # "threw"
            /\ (cpc[k] = "done" /\ cresp[k] \in {"status400", "garbage200", "requestError"})
                  => cResult[k] = "false")
    /\ [][\A k \in Checks :
            (cpc[k] = "refreshGet" /\ cpc'[k] # "refreshGet" /\ refreshToken = 0) =>
               (cResult'[k] = "false" /\ cpc'[k] = "done" /\ refreshSent'[k] = 0)]_vars

C18_Witness ==
    \E k \in Checks :
       /\ cpc[k] = "done"
       /\ cresp[k] = "status400"
       /\ refreshSent[k] # 0
       /\ cResult[k] = "false"

\* C19: the expiry stored by an exchange or a refresh is the time its answer
\* was received plus expires_in.
C19_ExpiryFromReceiveTime ==
    [][/\ \A i \in Exchanges :
             (xphase[i] = "refresh" /\ xphase'[i] = "expiry")
                => tokenExpiry' = xrecv[i] + xttl[i]
       /\ \A k \in Checks :
             (cpc[k] \in {"access", "refresh"} /\ cpc'[k] = "done")
                => tokenExpiry' = crecv[k] + cttl[k]]_vars

\* C20: the code_verifier of every token request is the verifier generated
\* by the attempt the request resolves, never an earlier one or the empty
\* initial value.
C20_VerifierOfResolvedAttempt ==
    \A i \in 1..Len(requests) :
       /\ requests[i].code_verifier # 0
       /\ requests[i].code_verifier = requests[i].session

\* C21: a callback passes the state verification only if its state is the
\* token generated for the attempt that is pending at that moment: never the
\* empty initial value, nor the token of an attempt that is over.
C21_StateOfPendingAttemptOnly ==
    [][\A s \in StateParams, c \in CodeParams, e \in ErrorParams :
          (HandleAuthCallback(s, c, e) /\ s = authState) =>
             /\ s \in Attempts
             /\ pendingAuthResolve = s
             /\ promise[s] = "pending"]_vars

\* ---- the callback listener ----

\* C22: the listener's response depends on the request alone: 404 "Not Found"
\* off /callback; on /callback the success page for a (non-empty) code, the
\* error page for an error without code, 400 with neither.
C22_ResponseByRequest ==
    [][\A path \in Paths, c \in HttpCodes, e \in HttpErrors, s \in HttpStates :
          HttpRequest(path, c, e, s) =>
             /\ path # "/callback" =>
                   lastResponse' = [status |-> 404, type |-> "text/plain",
                                    body |-> <<"Not Found">>]
             /\ (path = "/callback" /\ c = 1) =>
                   /\ lastResponse'.status = 200
                   /\ lastResponse'.type = "text/html"
                   /\ lastResponse'.body = getSuccessPageHtml
             /\ (path = "/callback" /\ c # 1 /\ e # <<>>) =>
                   /\ lastResponse'.status = 200
                   /\ lastResponse'.type = "text/html"
                   /\ lastResponse'.body = getErrorPageHtml(e)
             /\ (path = "/callback" /\ c # 1 /\ e = <<>>) =>
                   /\ lastResponse'.status = 400
                   /\ lastResponse'.type = "text/plain"]_vars

C22_Witness ==
    /\ lastResponse.status = 400
    /\ Len(handoff) = 1
    /\ srv[1] = "listening"

\* C23: a /callback request with a code is answered with the success page
\* in the step that sets its hand-off timer, the hand-off is not yet fired
\* then; each timer fires once, later, and opens the URI with that request's
\* code and state; every timer set does fire.
C23_HandoffAfterPageOncePerRequest ==
    /\ [][\A path \in Paths, c \in HttpCodes, e \in HttpErrors, s \in HttpStates :
            (HttpRequest(path, c, e, s) /\ path = "/callback" /\ c = 1) =>
               /\ lastResponse'.body = getSuccessPageHtml
               /\ handoff' = Append(handoff, [code |-> c, state |-> s, fired |-> FALSE])
               /\ opened' = opened]_vars
    /\ [](/\ Len(opened) = Cardinality({i \in 1..Len(handoff) : handoff[i].fired})
          /\ \A k \in 1..Len(opened) :
                /\ handoff[k].fired
                /\ opened[k].code = handoff[k].code
                /\ opened[k].state = (IF handoff[k].state = NoParam THEN 0
                                       ELSE handoff[k].state))
    /\ [][\A i \in 1..Len(handoff) : handoff[i].fired => handoff'[i].fired]_vars
    /\ \A i \in 1..MaxRequests : (Len(handoff) >= i) ~> (Len(opened) >= i)

C23_Witness ==
    /\ Len(opened) = 2
    /\ opened[1] = [code |-> 1, state |-> 1]
    /\ opened[2] = [code |-> 1, state |-> 0]
    /\ lastResponse.body = getSuccessPageHtml

\* C24: a /callback request with an error and no code is answered with the
\* error page and nothing else happens: no hand-off timer is set, and the
\* pending session, the timeout and the listener stay as they are.
C24_ErrorRequestOnlyServesPage ==
    [][\A c \in HttpCodes, e \in HttpErrors, s \in HttpStates :
          (HttpRequest("/callback", c, e, s) /\ c # 1 /\ e # <<>>) =>
             /\ lastResponse'.status = 200
             /\ lastResponse'.body = getErrorPageHtml(e)
             /\ handoff' = handoff
             /\ opened' = opened
             /\ UNCHANGED <<pendingAuthResolve, pendingAuthReject, promise,
                            timer, srv, server, pc, requests>>]_vars

C24_Witness ==
    /\ lastResponse.status = 200
    /\ lastResponse.body = getErrorPageHtml(<<"a">>)
    /\ handoff = <<>>
    /\ promise[1] = "pending"
    /\ pendingAuthReject = 1
    /\ timer[1] = "armed"
    /\ srv[1] = "listening"

\* C25: stopServer is idempotent: on a stopped or never started listener it
\* changes nothing and does not throw, and stopping twice leaves what
\* stopping once leaves.
C25_StopIsIdempotent ==
    /\ [](LET once == stopServer(server, srv)
              twice == stopServer(once.server, once.srv)
          IN /\ ~once.threw /\ ~twice.threw
             /\ twice = once
             /\ server = 0 => (once.server = 0 /\ once.srv = srv))
    \* a step taken with the listener already stopped that leaves it stopped
    \* (every further stopServer call is one) changes no server
    /\ [][(server = 0 /\ server' = 0) => srv' = srv]_vars

C25_Witness ==
    \E a \in Attempts :
       /\ timer[a] = "fired"
       /\ cbCount > 0
       /\ srv[a] = "closed"
       /\ server = 0

\* C26: when opening the authorization URL fails, the failure is shown and
\* nothing else changes: the pending session is not rejected, the listener
\* keeps running and the timeout stays armed.
C26_OpenFailureIsNotFatal ==
    [][\A a \in Attempts, o \in {"refused", "error"} :
          OpenResult(a, o) =>
             /\ lastMessage' \in {OpenRefusedMsg, OpenErrorMsg}
             /\ UNCHANGED <<promise, pendingAuthResolve, pendingAuthReject,
                            srv, server, timer>>]_vars

C26_Witness ==
    /\ openOutcome[1] = "refused"
    /\ lastMessage = OpenRefusedMsg
    /\ promise[1] = "pending"
    /\ pendingAuthResolve = 1
    /\ srv[1] = "listening"
    /\ timer[1] = "armed"

\* C27: the error page embeds the HTML-escaped form of the error parameter.
C27_ErrorPageEscapes ==
    [][LET RECURSIVE HtmlEscape(_)
           HtmlEscape(w) ==
               IF w = <<>> THEN <<>>
               ELSE (IF Head(w) = "<" THEN <<"&", "l", "t", ";">>
                     ELSE IF Head(w) = "&" THEN <<"&", "a", "m", "p", ";">>
                     ELSE <<Head(w)>>) \o HtmlEscape(Tail(w))
       IN \A c \in HttpCodes, e \in HttpErrors, s \in HttpStates :
             (HttpRequest("/callback", c, e, s) /\ c # 1 /\ e # <<>>) =>
                lastResponse'.body =
                   <<"<strong>Error: ">> \o HtmlEscape(e) \o <<"</strong>">>]_vars

\* ---- the Pomodoro timer ----

\* C29: after stop() the timer is Stopped with no running interval until
\* start() or startCustom() is invoked: a delayed start of the next interval
\* that was scheduled before the stop (by a completion or a skip) leaves the
\* timer Stopped when it runs
C29_DelayedStartAfterStop ==
    [][(stopRequested /\ DelayedFire) => timerState' = "stopped"]_vars

\* C30: a break entered after a work interval is a long break only when the
\* number of completed work intervals is a positive multiple of
\* longBreakAfter
C30_LongBreakOnlyAtPositiveMultiple ==
    [][(DelayedFire /\ timerState' = "longBreak") =>
          /\ completedIntervals > 0
          /\ completedIntervals % LongBreakAfter = 0]_vars

\* C31: for every entry written by saveState, loadState yields Stopped with
\* remainingTime 0, or the saved non-stopped state with a positive
\* remainingTime equal to the saved one minus the elapsed seconds; never a
\* non-stopped state with remainingTime 0
C31_LoadedSessionResumable ==
    [][\A e \in Elapsed :
          (savedState # NoSavedState /\ Reload(e)) =>
             \/ timerState' = "stopped" /\ remainingTime' = 0
             \/ /\ timerState' = savedState.state
                /\ timerState' # "stopped"
                /\ remainingTime' > 0
                /\ remainingTime' = savedState.remainingTime - e]_vars

\* C36: at most one ticking interval is active: every running interval is
\* the one the timer field references
C36_OnlyTheReferencedTicker ==
    orphanTickers = 0

\* C37: remainingTime is never negative, and the tick that brings it to 0
\* ends the current interval, once: the ticker is cleared and one transition
\* is scheduled or prompted
C37_NeverNegativeEndsOnce ==
    /\ [](remainingTime >= 0)
    /\ [][(IntervalFire /\ remainingTime' <= 0) =>
             /\ remainingTime' = 0
             /\ ~ticker'
             /\ Len(delayed') + Len(prompts') = Len(delayed) + Len(prompts) + 1]_vars

\* C38: completedIntervals grows by exactly 1 when a work interval runs down
\* to zero, becomes 0 on reset(), and is unchanged by every other step; a
\* skipped work interval is not counted
C38_CountsCompletedWorkOnly ==
    [][completedIntervals' =
          IF IntervalFire /\ timerState = "work" /\ remainingTime' = 0
          THEN completedIntervals + 1
          ELSE IF Reset THEN 0
          ELSE completedIntervals]_vars

\* C39: restart() in a non-stopped state sets remainingTime to the duration
\* with which the current interval was started and leaves exactly one
\* ticker running
C39_RestartGivesFullDuration ==
    [][Restart =>
          /\ remainingTime' = intervalSeconds
          /\ ticker'
          /\ orphanTickers' = 0]_vars

\* ---- the order of authenticate(), stale timers, late stores ----

\* C32: the timeout callback of an attempt rejects that attempt only: it
\* settles no other attempt's promise and stops no other attempt's listener
C32_TimeoutRejectsOwnSessionOnly ==
    [][\A a \in Attempts :
          Timeout(a) =>
             \A b \in Attempts \ {a} :
                promise'[b] = promise[b] /\ srv'[b] = srv[b]]_vars

\* C33: authenticate() records the pending session before it starts the
\* listener, opens the authorization URL (generating verifier and state)
\* only once the listener runs, and arms the timeout after that; an attempt
\* whose listener failed to start has no URL opened, no verifier or state
\* generated and no timeout armed
C33_OrderOfAuthenticate ==
    \A a \in Attempts :
       /\ pc[a] = "startServer" =>
             /\ pendingAuthResolve = a
             /\ pendingAuthReject = a
             /\ openOutcome[a] = "none"
             /\ timer[a] = "unset"
       /\ srv[a] = "failed" =>
             /\ openOutcome[a] = "none"
             /\ timer[a] = "unset"
             /\ authState # a
             /\ codeVerifier # a
       /\ openOutcome[a] # "none" => srv[a] \in {"listening", "closed"}
       /\ timer[a] # "unset" => openOutcome[a] # "none"

\* a listener failed to start for one attempt and another attempt went
\* through all four steps
C33_Witness ==
    \E a, b \in Attempts :
       /\ srv[a] = "failed"
       /\ promise[a] \in {"PortInUse", "BindError"}
       /\ timer[b] = "armed"
       /\ openOutcome[b] = "pending"

\* C34: for an exchange sent by an attempt whose promise was pending, the
\* token store is written, and auth-state-changed(true) fired, only while
\* that promise is not rejected, and the firing step resolves it
C34_RejectedAttemptNeverStores ==
    [][\A i \in Exchanges :
          /\ (\/ \E resp \in Responses, ttl \in TTLs :
                    (ExchangeStores(resp) /\ ExchangeResponse(i, resp, ttl))
               \/ ExchangeStoreRefresh(i)
               \/ ExchangeStoreExpiry(i)
               \/ ExchangeSuccess(i))
                 => (requests[i].pending =>
                        promise[requests[i].session] \notin Rejections)
          /\ ExchangeSuccess(i)
                 => (requests[i].pending =>
                        promise'[requests[i].session] = "resolved")]_vars

\* C35: when overlapping isAuthenticated() calls have all completed, the
\* stored record comes from one token response: the stored access token and
\* refresh token are not those of two different responses
C35_RecordFromOneResponse ==
    (\A k \in Checks : cpc[k] = "done") =>
       \A k \in Checks :
          (accessToken = RefreshTokenOf(k) /\ StoresRefreshToken(cresp[k])) =>
             refreshToken = RefreshTokenOf(k)

====
